---- MODULE Spec2Model ----
(***************************************************************************)
(* State-machine model of the NetClient session core.                      *)
(*                                                                         *)
(* The repository holds two copies of the class:                           *)
(*   src/netClient.js  (the minimal variant, binaryMode codec)             *)
(*   src/client.js     (the extended variant, 4-byte sender prefix,        *)
(*                      leftRoom and error kinds)                          *)
(* Both are modelled; the variable `variant` says which class the session  *)
(* object was constructed from, and never changes.                         *)
(*                                                                         *)
(* One step of the model is one run-to-completion task of the single       *)
(* JavaScript thread: a public method call, or one transport callback      *)
(* (onopen, onmessage, onclose) of one WebSocket object.                   *)
(***************************************************************************)
EXTENDS Integers, Sequences, FiniteSets, TLC

\* ------------------------------------------------------------------ bounds
\* Number of WebSocket objects the application may create with connect().
MaxSockets == 2
\* Number of on() registrations the application makes.
MaxRegistrations == 2

\* --------------------------------------------------------------- constants
\* this.ws = null
NoSocket == 0
\* null of the session fields
NULL == "null"
\* the class file the object was built from
Variants == {"netClient", "client"}
\* constructor(url, gameName): the demos construct with "demoGame"
gameName == "demoGame"
\* binary output mode: "bitstring" or "arraybytes"
BinaryModes == {"bitstring", "arraybytes"}
\* WebSocket.readyState values
ReadyStates == {"CONNECTING", "OPEN", "CLOSING", "CLOSED"}

\* ------------------------------------------------------- input value sets
PlayerIds == {"p1", "p2"}
RoomIds == {"r1", "r2"}
Payloads == {"hello"}
ErrorMessages == {"Room is closed"}
MaxClientsVals == {8}
Metadatas == {"map:Arena-02"}
RoomTags == {"closed"}
RoomLists == {<<>>, <<[roomId |-> "r1", ownerId |-> "p1", playerCount |-> 1]>>}
TagLists == {<<>>, <<"region:NA">>}
\* byte sequences carried by inbound binary frames
ByteSeqs == {<<5>>, <<0, 0, 1, 2, 7>>}
\* arguments of sendBinary: a '0'/'1' string, an Array of numbers, an ArrayBuffer
BinaryInputs ==
    { [kind |-> "string", val |-> <<1, 0, 1>>],
      [kind |-> "array", val |-> <<1, 2, 3, 4, 5>>],
      [kind |-> "buffer", val |-> <<1, 2, 3, 4, 5>>] }

VARIABLES
    variant,    \* which copy of the class this object is
    sockets,    \* readyState of every WebSocket object created so far
    ws,         \* this.ws: index into sockets, or NoSocket
    playerId,   \* this.playerId
    roomId,     \* this.roomId
    ownerId,    \* this.ownerId
    isHost,     \* this.isHost
    op,         \* the task that produced the current state
    sent,       \* frames handed to ws.send() by that task
    events,     \* emit() calls made by that task, with the fields seen
    threw,      \* that task ended in an uncaught exception
    listeners,  \* this.listeners: event name -> callbacks in stored order
    regLog,     \* history: the on() calls made so far, in call order
    clients,    \* room scenario: every client object, its socket and fields
    server,     \* room scenario: the backend's room
    uplink,     \* room scenario: frames on their way from each client to the backend
    inbox,      \* room scenario: frames on their way to each client
    queued,     \* room scenario: frames the backend sent in the last task
    handled,    \* room scenario: number of commands issued so far
    binaryMode, \* this.binaryMode
    wire,       \* codec scenario: the binary frame sent and not yet received back
    callerTags, \* caller scenario: the application's array, passed as `tags`
    hasLeft     \* caller scenario: leaveRoom() is the last room command issued

vars == <<variant, sockets, ws, playerId, roomId, ownerId, isHost, op, sent, events, threw,
          listeners, regLog, clients, server, uplink, inbox, queued, handled, binaryMode,
          wire,
          callerTags, hasLeft>>

\* The subscription registry and its history.
subVars == <<listeners, regLog>>

\* The several-client scenario.
roomVars == <<clients, server, uplink, inbox, queued, handled>>

\* The binary mode and the codec scenario's frame in flight.
codecVars == <<binaryMode, wire>>

\* The application's side of the caller scenario.
callerVars == <<callerTags, hasLeft>>

\* The single object of the one-client specifications.
soloVars == <<sockets, ws, playerId, roomId, ownerId, isHost>>

\* The four session fields as one value.
Sess == [playerId |-> playerId, roomId |-> roomId, ownerId |-> ownerId, isHost |-> isHost]

\* The field values the constructor sets.
Cleared == [playerId |-> NULL, roomId |-> NULL, ownerId |-> NULL, isHost |-> FALSE]

\* emit(event, ...args): one emission; `seen` is the session as the
\* subscribers find it when they are called.
emit(event, args, s) == <<[event |-> event, args |-> args, seen |-> s]>>

\* The subscribers emit() calls for one emission e, in call order:
\* this.listeners[event].forEach(cb => cb(...args)), nothing when the event
\* has no entry.
forEachListener(ls, e) ==
    IF e.event \in DOMAIN ls
    THEN [i \in 1..Len(ls[e.event]) |->
             [cb |-> ls[e.event][i], event |-> e.event, args |-> e.args, seen |-> e.seen]]
    ELSE <<>>

RECURSIVE invocations(_, _)
\* The callback invocations of a task that made the emissions evs.
invocations(ls, evs) ==
    IF evs = <<>> THEN <<>>
    ELSE forEachListener(ls, Head(evs)) \o invocations(ls, Tail(evs))

\* The callback invocations of the task that produced the current state.
Calls == invocations(listeners, events)

\* Result of a handler that ran to completion.
Done(s, evs) == [sess |-> s, events |-> evs, threw |-> FALSE]
\* Result of a handler that threw before changing anything.
Threw(s) == [sess |-> s, events |-> <<>>, threw |-> TRUE]

\* ------------------------------------------------------------ binary codec
RECURSIVE toBits(_, _)
\* b.toString(2).padStart(8, "0") for width 8: the low `width` bits, MSB first
toBits(b, width) ==
    IF width = 0 THEN <<>> ELSE Append(toBits(b \div 2, width - 1), b % 2)

RECURSIVE bitstring(_)
\* [...bytes].map(b => b.toString(2).padStart(8, "0")).join("")
bitstring(bytes) ==
    IF bytes = <<>> THEN <<>> ELSE toBits(Head(bytes), 8) \o bitstring(Tail(bytes))

RECURSIVE parseInt2_lsbFirst(_)
\* mutant: the group read with its first character as the lowest bit
parseInt2_lsbFirst(bin) ==
    IF bin = <<>> THEN 0 ELSE Head(bin) + 2 * parseInt2_lsbFirst(Tail(bin))

RECURSIVE parseInt2(_)
\* parseInt(bin, 2) of a non-empty string of '0'/'1'
parseInt2(bin) ==
    IF bin = <<>> THEN 0
    ELSE 2 * parseInt2(SubSeq(bin, 1, Len(bin) - 1)) + bin[Len(bin)]

RECURSIVE chunks8(_)
\* data.match(/.{1,8}/g) || []
chunks8(str) ==
    IF str = <<>> THEN <<>>
    ELSE IF Len(str) <= 8 THEN <<str>>
    ELSE <<SubSeq(str, 1, 8)>> \o chunks8(SubSeq(str, 9, Len(str)))

\* mutant: a signed byte array, values above 127 wrapping below zero
Int8Array(values) ==
    [i \in 1..Len(values) |->
        IF values[i] % 256 > 127 THEN (values[i] % 256) - 256 ELSE values[i] % 256]

\* new Uint8Array(values): every element taken modulo 256
Uint8Array(values) == [i \in 1..Len(values) |-> values[i] % 256]

\* mutant: the four bytes read lowest byte first
getUint32_littleEndian(bytes) ==
    ((bytes[4] * 256 + bytes[3]) * 256 + bytes[2]) * 256 + bytes[1]

\* dv.getUint32(0): big-endian unsigned 32-bit value of the first four bytes
getUint32(bytes) ==
    ((bytes[1] * 256 + bytes[2]) * 256 + bytes[3]) * 256 + bytes[4]

\* ------------------------------------------------- inbound frames (server)
\* JSON objects of the server-to-client kinds, plus one unknown kind.
InboundMsgs ==
    [type : {"assignId"}, playerId : PlayerIds]
    \cup [type : {"roomCreated"}, roomId : RoomIds, playerId : PlayerIds]
    \cup [type : {"roomJoined"}, roomId : RoomIds, playerId : PlayerIds,
          ownerId : PlayerIds, maxClients : MaxClientsVals]
    \cup [type : {"leftRoom"}, roomId : RoomIds]
    \cup [type : {"makeHost"}, oldHostId : PlayerIds]
    \cup [type : {"reassignedHost"}, newHostId : PlayerIds, oldHostId : PlayerIds]
    \cup [type : {"playerLeft"}, playerId : PlayerIds]
    \cup [type : {"relay", "tellOwner", "tellPlayer"}, from : PlayerIds, payload : Payloads]
    \cup [type : {"roomList"}, rooms : RoomLists]
    \cup [type : {"error"}, message : ErrorMessages]
    \cup [type : {"roomUpdated"}, metadata : Metadatas]
    \cup [type : {"roomTagAdded", "roomTagRemoved"}, tag : RoomTags]
    \cup [type : {"bogus"}]

\* evt of onmessage.  A text frame is described by what JSON.parse makes of
\* it: a SyntaxError, the value null, a non-object value, or an object.
InboundFrames ==
    [kind : {"binary"}, bytes : ByteSeqs]
    \cup [kind : {"text"}, parse : {"error", "null", "scalar"}]
    \cup [kind : {"text"}, parse : {"object"}, data : InboundMsgs]

\* ----------------------------------------------- src/netClient.js handlers
assignId_netClient(s, data) ==
    LET t == [s EXCEPT !.playerId = data.playerId]
    IN  Done(t, emit("assignedId", <<data.playerId>>, t))

roomCreated_netClient(s, data) ==
    LET t == [s EXCEPT !.roomId = data.roomId, !.ownerId = data.playerId]
    IN  Done(t, emit("roomCreated", <<data.roomId, data.playerId>>, t))

\* mutant: roomJoined without the isHost reset
roomJoined_keepsHost(s, data) ==
    LET t == [s EXCEPT !.roomId = data.roomId, !.ownerId = data.ownerId]
    IN  Done(t, emit("roomJoined",
                     <<data.roomId, data.playerId, data.ownerId, data.maxClients>>, t))

roomJoined_netClient(s, data) ==
    LET t == [s EXCEPT !.isHost = FALSE, !.roomId = data.roomId, !.ownerId = data.ownerId]
    IN  Done(t, emit("roomJoined",
                     <<data.roomId, data.playerId, data.ownerId, data.maxClients>>, t))

makeHost_netClient(s, data) ==
    LET t == [s EXCEPT !.isHost = TRUE, !.ownerId = s.playerId]
    IN  Done(t, emit("makeHost", <<data.oldHostId>>, t))

\* mutant: reassignedHost without recomputing the host flag
reassignedHost_staleFlag(s, data) ==
    LET t == [s EXCEPT !.ownerId = data.newHostId]
    IN  Done(t, emit("reassignedHost", <<data.newHostId, data.oldHostId>>, t))

reassignedHost_netClient(s, data) ==
    LET t == [s EXCEPT !.ownerId = data.newHostId,
                       !.isHost = (s.playerId = data.newHostId)]
    IN  Done(t, emit("reassignedHost", <<data.newHostId, data.oldHostId>>, t))

\* mutant: the notify cases with relay frames swallowed
notify_dropsRelay(s, data) ==
    CASE data.type = "playerLeft" -> Done(s, emit("playerLeft", <<data.playerId>>, s))
      [] data.type = "relay" -> Done(s, <<>>)
      [] data.type \in {"tellOwner", "tellPlayer"} ->
            Done(s, emit(data.type, <<data.from, data.payload>>, s))
      [] data.type = "roomList" -> Done(s, emit("roomList", <<data.rooms>>, s))

\* playerLeft, relay, tellOwner, tellPlayer, roomList: emit only
notify_netClient(s, data) ==
    CASE data.type = "playerLeft" -> Done(s, emit("playerLeft", <<data.playerId>>, s))
      [] data.type \in {"relay", "tellOwner", "tellPlayer"} ->
            Done(s, emit(data.type, <<data.from, data.payload>>, s))
      [] data.type = "roomList" -> Done(s, emit("roomList", <<data.rooms>>, s))

\* mutant: the binary branch that ignores this.binaryMode
binary_modeIgnored(s, bytes) == Done(s, emit("binary", <<bitstring(bytes)>>, s))

\* the binary branch: a bit string in "bitstring" mode, Array.from(bytes) in
\* "arraybytes" mode, nothing in any other mode
binary_netClient(s, bytes) ==
    CASE binaryMode = "bitstring" -> Done(s, emit("binary", <<bitstring(bytes)>>, s))
      [] binaryMode = "arraybytes" -> Done(s, emit("binary", <<bytes>>, s))
      [] OTHER -> Done(s, <<>>)

\* switch (data.type): kinds without a case fall through silently
switch_netClient(s, data) ==
    CASE data.type = "assignId" -> assignId_netClient(s, data)
      [] data.type = "roomCreated" -> roomCreated_netClient(s, data)
      [] data.type = "roomJoined" -> roomJoined_netClient(s, data)
      [] data.type = "makeHost" -> makeHost_netClient(s, data)
      [] data.type = "reassignedHost" -> reassignedHost_netClient(s, data)
      [] data.type \in {"playerLeft", "relay", "tellOwner", "tellPlayer", "roomList"} ->
            notify_netClient(s, data)
      [] OTHER -> Done(s, <<>>)

\* _handleMessage(evt)
handleMessage_netClient(s, evt) ==
    IF evt.kind = "binary" THEN binary_netClient(s, evt.bytes)
    ELSE CASE evt.parse = "error" -> Done(s, <<>>)      \* catch { return; }
           [] evt.parse = "null" -> Threw(s)            \* null.type: TypeError
           [] evt.parse = "scalar" -> Done(s, <<>>)     \* data.type is undefined
           [] evt.parse = "object" -> switch_netClient(s, evt.data)

\* ws.onclose = () => this.emit("disconnected")
onclose_netClient(s) == Done(s, emit("disconnected", <<>>, s))

\* -------------------------------------------------- src/client.js handlers
\* mutant: assignId that notifies before it stores the identity
assignId_emitFirst(s, data) ==
    LET t == [s EXCEPT !.playerId = data.playerId]
    IN  Done(t, emit("assignedId", <<data.playerId>>, s))

assignId_client(s, data) ==
    LET t == [s EXCEPT !.playerId = data.playerId]
    IN  Done(t, emit("assignedId", <<data.playerId>>, t))

\* mutant: roomCreated that forgets to store the room identity
roomCreated_noRoom(s, data) ==
    LET t == [s EXCEPT !.ownerId = data.playerId, !.isHost = TRUE]
    IN  Done(t, emit("roomCreated", <<data.roomId, data.playerId>>, t))

roomCreated_client(s, data) ==
    LET t == [s EXCEPT !.roomId = data.roomId, !.ownerId = data.playerId, !.isHost = TRUE]
    IN  Done(t, emit("roomCreated", <<data.roomId, data.playerId>>, t))

roomJoined_client(s, data) ==
    LET t == [s EXCEPT !.roomId = data.roomId, !.ownerId = data.ownerId, !.isHost = FALSE]
    IN  Done(t, emit("roomJoined",
                     <<data.roomId, data.playerId, data.ownerId, data.maxClients>>, t))

leftRoom_client(s, data) ==
    LET t == [s EXCEPT !.roomId = NULL, !.ownerId = NULL, !.isHost = FALSE]
    IN  Done(t, emit("leftRoom", <<data.roomId>>, t))

\* mutant: makeHost that raises the flag but leaves the owner view stale
makeHost_staleOwner(s, data) ==
    LET t == [s EXCEPT !.isHost = TRUE]
    IN  Done(t, emit("makeHost", <<data.oldHostId>>, t))

makeHost_client(s, data) ==
    LET t == [s EXCEPT !.isHost = TRUE, !.ownerId = s.playerId]
    IN  Done(t, emit("makeHost", <<data.oldHostId>>, t))

reassignedHost_client(s, data) ==
    LET t == [s EXCEPT !.ownerId = data.newHostId,
                       !.isHost = (s.playerId = data.newHostId)]
    IN  Done(t, emit("reassignedHost", <<data.newHostId, data.oldHostId>>, t))

\* playerLeft, relay, tellOwner, tellPlayer, roomList, error: emit only
\* mutant: the relay case handing its arguments over in the wrong order
notify_relaySwapped(s, data) ==
    CASE data.type = "playerLeft" -> Done(s, emit("playerLeft", <<data.playerId>>, s))
      [] data.type = "relay" -> Done(s, emit("relay", <<data.payload, data.from>>, s))
      [] data.type \in {"tellOwner", "tellPlayer"} ->
            Done(s, emit(data.type, <<data.from, data.payload>>, s))
      [] data.type = "roomList" -> Done(s, emit("roomList", <<data.rooms>>, s))
      [] data.type = "error" -> Done(s, emit("error", <<data.message>>, s))

notify_client(s, data) ==
    CASE data.type = "playerLeft" -> Done(s, emit("playerLeft", <<data.playerId>>, s))
      [] data.type \in {"relay", "tellOwner", "tellPlayer"} ->
            Done(s, emit(data.type, <<data.from, data.payload>>, s))
      [] data.type = "roomList" -> Done(s, emit("roomList", <<data.rooms>>, s))
      [] data.type = "error" -> Done(s, emit("error", <<data.message>>, s))

\* the binary branch: 4-byte sender prefix; getUint32(0) throws a RangeError
\* on a buffer shorter than 4 bytes
binary_client(s, bytes) ==
    IF Len(bytes) < 4 THEN Threw(s)
    ELSE Done(s, emit("binary", <<getUint32(bytes), SubSeq(bytes, 5, Len(bytes))>>, s))

switch_client(s, data) ==
    CASE data.type = "assignId" -> assignId_client(s, data)
      [] data.type = "roomCreated" -> roomCreated_client(s, data)
      [] data.type = "roomJoined" -> roomJoined_client(s, data)
      [] data.type = "leftRoom" -> leftRoom_client(s, data)
      [] data.type = "makeHost" -> makeHost_client(s, data)
      [] data.type = "reassignedHost" -> reassignedHost_client(s, data)
      [] data.type \in {"playerLeft", "relay", "tellOwner", "tellPlayer", "roomList", "error"} ->
            notify_client(s, data)
      [] OTHER -> Done(s, <<>>)

\* mutant: _handleMessage whose catch block reports the parse failure as an
\* `error` event instead of returning
handleMessage_parseErrorEvent(s, evt) ==
    IF evt.kind = "binary" THEN binary_client(s, evt.bytes)
    ELSE CASE evt.parse = "error" -> Done(s, emit("error", <<"parse">>, s))
           [] evt.parse = "null" -> Threw(s)
           [] evt.parse = "scalar" -> Done(s, <<>>)
           [] evt.parse = "object" -> switch_client(s, evt.data)

\* _handleMessage(evt)
handleMessage_client(s, evt) ==
    IF evt.kind = "binary" THEN binary_client(s, evt.bytes)
    ELSE CASE evt.parse = "error" -> Done(s, <<>>)
           [] evt.parse = "null" -> Threw(s)
           [] evt.parse = "scalar" -> Done(s, <<>>)
           [] evt.parse = "object" -> switch_client(s, evt.data)

\* ws.onclose: reset all local state, then emit("disconnected")
onclose_client(s) == Done(Cleared, emit("disconnected", <<>>, Cleared))

\* ----------------------------------------------------------- dispatch
handleMessage(s, evt) ==
    IF variant = "netClient" THEN handleMessage_netClient(s, evt)
    ELSE handleMessage_client(s, evt)

onclose(s) == IF variant = "netClient" THEN onclose_netClient(s) ELSE onclose_client(s)

\* ws.onopen = () => this.emit("connected")
onopen(s) == Done(s, emit("connected", <<>>, s))

\* this.ws is set and its readyState is WebSocket.OPEN
TransportOpen == ws # NoSocket /\ sockets[ws] = "OPEN"

\* mutant: _send without the readyState guard
send_unguarded(obj) == <<[kind |-> "text", data |-> obj]>>

\* _send(obj): the frames handed to ws.send
send(obj) == IF ~TransportOpen THEN <<>> ELSE <<[kind |-> "text", data |-> obj]>>

\* ws.close(): CONNECTING and OPEN become CLOSING, otherwise no effect
close(socks, i) ==
    IF socks[i] \in {"CONNECTING", "OPEN"} THEN [socks EXCEPT ![i] = "CLOSING"] ELSE socks

\* Store a handler result into the session fields.
Apply(r) ==
    /\ playerId' = r.sess.playerId
    /\ roomId' = r.sess.roomId
    /\ ownerId' = r.sess.ownerId
    /\ isHost' = r.sess.isHost
    /\ events' = r.events
    /\ threw' = r.threw

\* ------------------------------------------------------------------ Init
\* The object right after `new NetClient(url, gameName)`, but for the
\* binary mode.
Fresh ==
    /\ variant \in Variants
    /\ sockets = <<>>
    /\ ws = NoSocket
    /\ playerId = NULL
    /\ roomId = NULL
    /\ ownerId = NULL
    /\ isHost = FALSE
    /\ op = [kind |-> "new"]
    /\ sent = <<>>
    /\ events = <<>>
    /\ threw = FALSE
    /\ listeners = <<>>
    /\ regLog = <<>>
    /\ clients = [c \in {"A", "B", "C"} |-> [ws |-> "OPEN", sess |-> Cleared]]
    /\ server = [members |-> {}, owner |-> NULL, tags |-> {}, maxClients |-> 0]
    /\ uplink = [c \in {"A", "B", "C"} |-> <<>>]
    /\ inbox = [c \in {"A", "B", "C"} |->
                   <<[type |-> "assignId",
                      playerId |-> CASE c = "A" -> "p1" [] c = "B" -> "p2" [] c = "C" -> "p3"]>>]
    /\ queued = [c \in {"A", "B", "C"} |-> <<>>]
    /\ handled = 0
    /\ wire = <<>>
    /\ hasLeft = FALSE

\* The object right after `new NetClient(url, gameName)`:
\* this.binaryMode = "bitstring".
Init == Fresh /\ binaryMode = "bitstring" /\ callerTags = <<>>

\* A method call that leaves the session fields alone and raises nothing.
Quiet == /\ UNCHANGED <<playerId, roomId, ownerId, isHost>>
         /\ events' = <<>>
         /\ threw' = FALSE

\* --------------------------------------------------------- connection API
\* connect(): a new WebSocket, stored in this.ws, with the four callbacks
connect ==
    /\ Len(sockets) < MaxSockets
    /\ sockets' = Append(sockets, "CONNECTING")
    /\ ws' = Len(sockets) + 1
    /\ op' = [kind |-> "connect"]
    /\ sent' = <<>>
    /\ Quiet
    /\ UNCHANGED variant

\* disconnect(): if (this.ws) { this.ws.close(); this.ws = null; }
disconnect ==
    /\ sockets' = IF ws # NoSocket THEN close(sockets, ws) ELSE sockets
    /\ ws' = NoSocket
    /\ op' = [kind |-> "disconnect"]
    /\ sent' = <<>>
    /\ Quiet
    /\ UNCHANGED variant

\* ----------------------------------------------------- transport callbacks
\* The open event of socket i: ws.onopen
SocketOpen(i) ==
    /\ sockets[i] = "CONNECTING"
    /\ sockets' = [sockets EXCEPT ![i] = "OPEN"]
    /\ Apply(onopen(Sess))
    /\ op' = [kind |-> "open", sock |-> i]
    /\ sent' = <<>>
    /\ UNCHANGED <<variant, ws>>

\* The peer starts the closing handshake on socket i (the server's Close
\* frame arrives): the platform sets readyState to CLOSING in a task that
\* runs no callback of the class; this.ws keeps naming the socket.
PeerClosing(i) ==
    /\ sockets[i] = "OPEN"
    /\ sockets' = [sockets EXCEPT ![i] = "CLOSING"]
    /\ op' = [kind |-> "closing", sock |-> i]
    /\ sent' = <<>>
    /\ Quiet
    /\ UNCHANGED <<variant, ws>>

\* The close event of socket i (close handshake done, connection lost or
\* refused): ws.onclose
SocketClose(i) ==
    /\ sockets[i] \in {"CONNECTING", "OPEN", "CLOSING"}
    /\ sockets' = [sockets EXCEPT ![i] = "CLOSED"]
    /\ Apply(onclose(Sess))
    /\ op' = [kind |-> "close", sock |-> i]
    /\ sent' = <<>>
    /\ UNCHANGED <<variant, ws>>

\* A message event of socket i (delivered only while it is OPEN): ws.onmessage
Receive(i, evt) ==
    /\ sockets[i] = "OPEN"
    /\ Apply(handleMessage(Sess, evt))
    /\ op' = [kind |-> "recv", sock |-> i, evt |-> evt]
    /\ sent' = <<>>
    /\ UNCHANGED <<variant, sockets, ws>>

\* ---------------------------------------------------------------- room API
\* mutant: the game tag put in front of the caller's tags
createRoomTags_gameFirst(tags, isPrivate) ==
    (<<"game:" \o gameName>> \o tags) \o (IF isPrivate THEN <<"private">> ELSE <<>>)

\* tags as put on the wire by createRoom
createRoomTags(tags, isPrivate) ==
    (tags \o <<"game:" \o gameName>>) \o (IF isPrivate THEN <<"private">> ELSE <<>>)

\* tags as put on the wire by listRooms
listRoomsTags(tags) == tags \o <<"game:" \o gameName>>

\* mutant: createRoom that makes the caller host before the backend answers
createRoom_optimistic(tags, maxClients, isPrivate) ==
    /\ sent' = send([type |-> "createRoom", tags |-> createRoomTags(tags, isPrivate),
                     maxClients |-> maxClients])
    /\ op' = [kind |-> "createRoom", tags |-> tags, maxClients |-> maxClients,
              isPrivate |-> isPrivate]
    /\ isHost' = TRUE
    /\ events' = <<>>
    /\ threw' = FALSE
    /\ UNCHANGED <<playerId, roomId, ownerId>>
    /\ UNCHANGED <<variant, sockets, ws>>

createRoom(tags, maxClients, isPrivate) ==
    /\ sent' = send([type |-> "createRoom", tags |-> createRoomTags(tags, isPrivate),
                     maxClients |-> maxClients])
    /\ op' = [kind |-> "createRoom", tags |-> tags, maxClients |-> maxClients,
              isPrivate |-> isPrivate]
    /\ Quiet
    /\ UNCHANGED <<variant, sockets, ws>>

joinRoom(rid) ==
    /\ sent' = send([type |-> "joinRoom", roomId |-> rid])
    /\ op' = [kind |-> "joinRoom", roomId |-> rid]
    /\ Quiet
    /\ UNCHANGED <<variant, sockets, ws>>

\* netClient.js: _send, then this.roomId = null
leaveRoom_netClient(s) == [s EXCEPT !.roomId = NULL]

\* client.js: _send only; the fields are cleared when leftRoom arrives
leaveRoom_client(s) == s

leaveRoom ==
    /\ sent' = send([type |-> "leaveRoom"])
    /\ Apply(Done(IF variant = "netClient" THEN leaveRoom_netClient(Sess)
                  ELSE leaveRoom_client(Sess), <<>>))
    /\ op' = [kind |-> "leaveRoom"]
    /\ UNCHANGED <<variant, sockets, ws>>

listRooms(tags) ==
    /\ sent' = send([type |-> "listRooms", tags |-> listRoomsTags(tags)])
    /\ op' = [kind |-> "listRooms", tags |-> tags]
    /\ Quiet
    /\ UNCHANGED <<variant, sockets, ws>>

\* ------------------------------------------------------------- message API
\* { type: "relay", payload }
relayRequest(payload) == [type |-> "relay", payload |-> payload]

\* mutant: tellPlayer addressing the room owner instead of the named player
tellPlayerRequest_toOwner(pid, payload) == [type |-> "tellOwner", payload |-> payload]

\* { type: "tellPlayer", playerId, payload }
tellPlayerRequest(pid, payload) ==
    [type |-> "tellPlayer", playerId |-> pid, payload |-> payload]

sendRelay(payload) ==
    /\ sent' = send(relayRequest(payload))
    /\ op' = [kind |-> "sendRelay", payload |-> payload]
    /\ Quiet
    /\ UNCHANGED <<variant, sockets, ws>>

tellOwner(payload) ==
    /\ sent' = send([type |-> "tellOwner", payload |-> payload])
    /\ op' = [kind |-> "tellOwner", payload |-> payload]
    /\ Quiet
    /\ UNCHANGED <<variant, sockets, ws>>

tellPlayer(pid, payload) ==
    /\ sent' = send(tellPlayerRequest(pid, payload))
    /\ op' = [kind |-> "tellPlayer", playerId |-> pid, payload |-> payload]
    /\ Quiet
    /\ UNCHANGED <<variant, sockets, ws>>

\* netClient.js sendBinary: a string is cut into 8-character groups, each
\* parsed base 2; an Array is packed as is; anything else sends nothing
sendBinary_netClient(data) ==
    IF ~TransportOpen THEN <<>>
    ELSE CASE data.kind = "string" ->
                <<[kind |-> "binary",
                   bytes |-> Uint8Array([i \in 1..Len(chunks8(data.val)) |->
                                            parseInt2(chunks8(data.val)[i])])]>>
           [] data.kind = "array" -> <<[kind |-> "binary", bytes |-> Uint8Array(data.val)]>>
           [] OTHER -> <<>>

\* client.js sendBinary(buffer): the ArrayBuffer goes out unchanged
sendBinary_client(data) ==
    IF ~TransportOpen THEN <<>> ELSE <<[kind |-> "binary", bytes |-> data.val]>>

sendBinary(data) ==
    /\ variant = "client" => data.kind = "buffer"
    /\ sent' = IF variant = "netClient" THEN sendBinary_netClient(data)
               ELSE sendBinary_client(data)
    /\ op' = [kind |-> "sendBinary", data |-> data]
    /\ Quiet
    /\ UNCHANGED <<variant, sockets, ws>>

\* ------------------------------------------------------------------- Next
Next ==
    \/ connect /\ UNCHANGED <<subVars, roomVars, codecVars, callerVars>>
    \/ disconnect /\ UNCHANGED <<subVars, roomVars, codecVars, callerVars>>
    \/ \E i \in DOMAIN sockets : SocketOpen(i) /\ UNCHANGED <<subVars, roomVars, codecVars, callerVars>>
    \/ \E i \in DOMAIN sockets : PeerClosing(i) /\ UNCHANGED <<subVars, roomVars, codecVars, callerVars>>
    \/ \E i \in DOMAIN sockets : SocketClose(i) /\ UNCHANGED <<subVars, roomVars, codecVars, callerVars>>
    \/ \E i \in DOMAIN sockets : \E evt \in InboundFrames :
          Receive(i, evt) /\ UNCHANGED <<subVars, roomVars, codecVars, callerVars>>
    \/ \E tags \in TagLists : \E mc \in MaxClientsVals : \E priv \in BOOLEAN :
          createRoom(tags, mc, priv) /\ UNCHANGED <<subVars, roomVars, codecVars, callerVars>>
    \/ \E rid \in RoomIds : joinRoom(rid) /\ UNCHANGED <<subVars, roomVars, codecVars, callerVars>>
    \/ leaveRoom /\ UNCHANGED <<subVars, roomVars, codecVars, callerVars>>
    \/ \E tags \in TagLists : listRooms(tags) /\ UNCHANGED <<subVars, roomVars, codecVars, callerVars>>
    \/ \E payload \in Payloads : sendRelay(payload) /\ UNCHANGED <<subVars, roomVars, codecVars, callerVars>>
    \/ \E payload \in Payloads : tellOwner(payload) /\ UNCHANGED <<subVars, roomVars, codecVars, callerVars>>
    \/ \E pid \in PlayerIds : \E payload \in Payloads :
          tellPlayer(pid, payload) /\ UNCHANGED <<subVars, roomVars, codecVars, callerVars>>
    \/ \E data \in BinaryInputs : sendBinary(data) /\ UNCHANGED <<subVars, roomVars, codecVars, callerVars>>

\* The session with no subscriber registered.
Spec == Init /\ [][Next]_vars

\* The close event of a transport on which ws.close() was called: the
\* browser ends the closing handshake (or gives it up) and then fires it.
ClosingDone ==
    \E i \in DOMAIN sockets :
        /\ sockets[i] = "CLOSING"
        /\ SocketClose(i)
        /\ UNCHANGED <<subVars, roomVars, codecVars, callerVars>>

\* The session over a fair transport: a transport that is being closed does
\* get its close event.
SpecFair == Init /\ [][Next]_vars /\ WF_vars(ClosingDone)

\* ------------------------------------------------------------ subscribers
\* Events and callbacks the application registers with on().
ListenEvents == {"assignedId", "reassignedHost"}
Callbacks == {"f", "g"}

\* mutant: on() that replaces the event's list by the new callback
on_replace(event, callback) ==
    /\ Len(regLog) < MaxRegistrations
    /\ listeners' = IF event \in DOMAIN listeners
                    THEN [listeners EXCEPT ![event] = <<callback>>]
                    ELSE (event :> <<callback>>) @@ listeners
    /\ regLog' = Append(regLog, <<event, callback>>)
    /\ op' = [kind |-> "on", event |-> event, callback |-> callback]
    /\ sent' = <<>>
    /\ Quiet
    /\ UNCHANGED <<variant, sockets, ws>>

\* mutant: on() that puts the new callback in front
on_prepend(event, callback) ==
    /\ Len(regLog) < MaxRegistrations
    /\ listeners' = IF event \in DOMAIN listeners
                    THEN [listeners EXCEPT ![event] = <<callback>> \o @]
                    ELSE (event :> <<callback>>) @@ listeners
    /\ regLog' = Append(regLog, <<event, callback>>)
    /\ op' = [kind |-> "on", event |-> event, callback |-> callback]
    /\ sent' = <<>>
    /\ Quiet
    /\ UNCHANGED <<variant, sockets, ws>>

\* on(event, callback): create the list if missing, push the callback
on(event, callback) ==
    /\ Len(regLog) < MaxRegistrations
    /\ listeners' = IF event \in DOMAIN listeners
                    THEN [listeners EXCEPT ![event] = Append(@, callback)]
                    ELSE (event :> <<callback>>) @@ listeners
    /\ regLog' = Append(regLog, <<event, callback>>)
    /\ op' = [kind |-> "on", event |-> event, callback |-> callback]
    /\ sent' = <<>>
    /\ Quiet
    /\ UNCHANGED <<variant, sockets, ws>>

\* Messages delivered in the subscriber scenarios: the server talking to
\* client p1 about room r1, whose other player is p2.
SubscriberMsgs ==
    { [type |-> "assignId", playerId |-> "p1"],
      [type |-> "roomCreated", roomId |-> "r1", playerId |-> "p1"],
      [type |-> "roomJoined", roomId |-> "r1", playerId |-> "p1", ownerId |-> "p2",
       maxClients |-> 8],
      [type |-> "makeHost", oldHostId |-> "p2"],
      [type |-> "reassignedHost", newHostId |-> "p2", oldHostId |-> "p1"],
      [type |-> "relay", from |-> "p2", payload |-> "hello"] }

SubscriberFrames == [kind : {"text"}, parse : {"object"}, data : SubscriberMsgs]

NextSubscribers ==
    \/ \E e \in ListenEvents : \E cb \in Callbacks : on(e, cb) /\ UNCHANGED <<roomVars, codecVars, callerVars>>
    \/ connect /\ UNCHANGED <<subVars, roomVars, codecVars, callerVars>>
    \/ disconnect /\ UNCHANGED <<subVars, roomVars, codecVars, callerVars>>
    \/ \E i \in DOMAIN sockets : SocketOpen(i) /\ UNCHANGED <<subVars, roomVars, codecVars, callerVars>>
    \/ \E i \in DOMAIN sockets : PeerClosing(i) /\ UNCHANGED <<subVars, roomVars, codecVars, callerVars>>
    \/ \E i \in DOMAIN sockets : SocketClose(i) /\ UNCHANGED <<subVars, roomVars, codecVars, callerVars>>
    \/ \E i \in DOMAIN sockets : \E evt \in SubscriberFrames :
          Receive(i, evt) /\ UNCHANGED <<subVars, roomVars, codecVars, callerVars>>

\* The session with an application that subscribes while it runs.
SpecSubscribers == Init /\ [][NextSubscribers]_vars

\* ---------------------------------------------------------- room scenario
\* Three client objects A, B and C of the same class copy, each on its own
\* open connection to the backend, and one room. The scenario starts where
\* every connection has opened and the backend has sent each client its
\* identity. A command ends when its frame is handed to ws.send; the frame
\* then travels (uplink) and the backend handles it in a task of its own,
\* in order per connection, while other clients' tasks run in between. What
\* the backend sends back waits in the receiver's inbox, in order, until
\* that client's onmessage runs.
Clients == {"A", "B", "C"}

\* The identity the backend assigns to each connection.
idOf == [c \in Clients |-> CASE c = "A" -> "p1" [] c = "B" -> "p2" [] c = "C" -> "p3"]

\* The client whose application creates the room; the others join it.
Creator == "A"

\* The identity of the one room the backend hands out.
TheRoom == "r1"

RoomPayloads == {"hello", "bye"}

\* Frames that may be on their way at once, to the backend and to the
\* clients together.
MaxInFlight == 2

\* Commands issued in one run of the scenario.
MaxRequests == 4

Range(f) == {f[i] : i \in DOMAIN f}

\* No room.
NoRoom == [members |-> {}, owner |-> NULL, tags |-> {}, maxClients |-> 0]

\* What the backend sends: for every client the frames appended to its inbox.
Nothing == [c \in Clients |-> <<>>]
toOne(c, msg) == [Nothing EXCEPT ![c] = <<msg>>]
toEach(cs, msg) == [c \in Clients |-> IF c \in cs THEN <<msg>> ELSE <<>>]

reply(srv, out) == [srv |-> srv, out |-> out]

\* A protocol-level rejection: error{message} to the requester only.
reject(srv, c, message) == reply(srv, toOne(c, [type |-> "error", message |-> message]))

\* createRoom{tags, maxClients}: a room owned by the requester.
serveCreateRoom(srv, c, obj) ==
    reply([members |-> {c}, owner |-> c, tags |-> Range(obj.tags),
           maxClients |-> obj.maxClients],
          toOne(c, [type |-> "roomCreated", roomId |-> TheRoom, playerId |-> idOf[c]]))

\* joinRoom{roomId}: fails if the room does not exist, is closed or is full.
serveJoinRoom(srv, c, obj) ==
    IF srv.members = {} \/ obj.roomId # TheRoom THEN reject(srv, c, "Room not found")
    ELSE IF "closed" \in srv.tags THEN reject(srv, c, "Room is closed")
    ELSE IF Cardinality(srv.members) >= srv.maxClients THEN reject(srv, c, "Room is full")
    ELSE reply([srv EXCEPT !.members = @ \cup {c}],
               toOne(c, [type |-> "roomJoined", roomId |-> TheRoom, playerId |-> idOf[c],
                         ownerId |-> idOf[srv.owner], maxClients |-> srv.maxClients]))

\* leaveRoom{}: the others are told playerLeft; when the owner leaves, pick
\* becomes the owner and is told makeHost, the rest reassignedHost.
serveLeaveRoom(srv, c, pick) ==
    LET rest == srv.members \ {c}
        left == [type |-> "playerLeft", playerId |-> idOf[c]]
    IN  IF c \notin srv.members THEN reply(srv, Nothing)
        ELSE IF rest = {} THEN reply(NoRoom, Nothing)
        ELSE IF c # srv.owner THEN reply([srv EXCEPT !.members = rest], toEach(rest, left))
        ELSE reply([srv EXCEPT !.members = rest, !.owner = pick],
                   [d \in Clients |->
                       IF d \notin rest THEN <<>>
                       ELSE IF d = pick
                       THEN <<left, [type |-> "makeHost", oldHostId |-> idOf[c]]>>
                       ELSE <<left, [type |-> "reassignedHost", newHostId |-> idOf[pick],
                                     oldHostId |-> idOf[c]]>>])

\* addTag{tag} / removeTag{tag}: owner only; told to every member, the
\* issuer included.
serveTag(srv, c, obj) ==
    IF c \notin srv.members \/ c # srv.owner THEN reject(srv, c, "Not the room owner")
    ELSE IF obj.type = "addTag"
    THEN reply([srv EXCEPT !.tags = @ \cup {obj.tag}],
               toEach(srv.members, [type |-> "roomTagAdded", tag |-> obj.tag]))
    ELSE reply([srv EXCEPT !.tags = @ \ {obj.tag}],
               toEach(srv.members, [type |-> "roomTagRemoved", tag |-> obj.tag]))

\* relay{payload}: to every other member of the sender's room.
serveRelay(srv, c, obj) ==
    IF c \notin srv.members THEN reply(srv, Nothing)
    ELSE reply(srv, toEach(srv.members \ {c},
                           [type |-> "relay", from |-> idOf[c], payload |-> obj.payload]))

\* tellOwner{payload}: to the owner of the sender's room.
serveTellOwner(srv, c, obj) ==
    IF c \notin srv.members THEN reject(srv, c, "Not in a room")
    ELSE reply(srv, toOne(srv.owner,
                          [type |-> "tellOwner", from |-> idOf[c], payload |-> obj.payload]))

\* tellPlayer{playerId, payload}: to the named member of the sender's room.
serveTellPlayer(srv, c, obj) ==
    IF c \notin srv.members \/ ~\E d \in srv.members : idOf[d] = obj.playerId
    THEN reject(srv, c, "Player not found")
    ELSE reply(srv, toOne(CHOOSE d \in srv.members : idOf[d] = obj.playerId,
                          [type |-> "tellPlayer", from |-> idOf[c],
                           payload |-> obj.payload]))

\* The backend handling one request of connection c.
serve(srv, c, obj, pick) ==
    CASE obj.type = "createRoom" -> serveCreateRoom(srv, c, obj)
      [] obj.type = "joinRoom" -> serveJoinRoom(srv, c, obj)
      [] obj.type = "leaveRoom" -> serveLeaveRoom(srv, c, pick)
      [] obj.type \in {"addTag", "removeTag"} -> serveTag(srv, c, obj)
      [] obj.type = "relay" -> serveRelay(srv, c, obj)
      [] obj.type = "tellOwner" -> serveTellOwner(srv, c, obj)
      [] obj.type = "tellPlayer" -> serveTellPlayer(srv, c, obj)

\* Number of frames in q, one sequence per client.
InFlight(q) == Len(q["A"]) + Len(q["B"]) + Len(q["C"])

\* _send(obj) of client c
submit(c, obj) ==
    IF clients[c].ws # "OPEN" THEN <<>> ELSE <<[kind |-> "text", data |-> obj]>>

\* The room commands of client c that are still on their way.
RoomCommandsOf(c) ==
    {i \in 1..Len(uplink[c]) :
        uplink[c][i].obj.type \in {"createRoom", "joinRoom", "leaveRoom"}}

\* A command of client c: o describes the call, obj is the request it
\* builds, sess the fields it leaves behind. The task ends with the frame
\* handed to ws.send; the backend has not seen it yet.
request(c, o, obj, sess) ==
    LET frames == submit(c, obj)
    IN  /\ handled < MaxRequests
        /\ InFlight(uplink) + InFlight(inbox) + Len(frames) <= MaxInFlight
        /\ handled' = handled + 1
        /\ sent' = frames
        /\ uplink' = [uplink EXCEPT ![c] =
                         @ \o [i \in 1..Len(frames) |-> [obj |-> frames[i].data, call |-> o]]]
        /\ queued' = Nothing
        /\ clients' = [clients EXCEPT ![c].sess = sess]
        /\ op' = o
        /\ events' = <<>>
        /\ threw' = FALSE
        /\ UNCHANGED <<variant, soloVars, subVars, codecVars, callerVars, server, inbox>>

\* The backend receives the frame of connection c that waited longest,
\* changes the room and sends its answers. When an owner leaves, pick is
\* the member the backend makes the next owner.
backendReceive(c, pick) ==
    /\ uplink[c] # <<>>
    /\ IF Head(uplink[c]).obj.type = "leaveRoom"
       THEN pick \in server.members \ {c} \/ (server.members \ {c} = {} /\ pick = c)
       ELSE pick = c
    /\ LET r == serve(server, c, Head(uplink[c]).obj, pick)
       IN  /\ InFlight(uplink) - 1 + InFlight(inbox) + InFlight(r.out) <= MaxInFlight
           /\ server' = r.srv
           /\ queued' = r.out
           /\ inbox' = [d \in Clients |-> inbox[d] \o r.out[d]]
    /\ uplink' = [uplink EXCEPT ![c] = Tail(@)]
    /\ op' = [kind |-> "served", who |-> c, obj |-> Head(uplink[c]).obj,
              call |-> Head(uplink[c]).call]
    /\ sent' = <<>>
    /\ events' = <<>>
    /\ threw' = FALSE
    /\ UNCHANGED <<variant, soloVars, subVars, codecVars, callerVars, clients, handled>>

\* The message event at client c for the frame that waited longest.
onmessageAt(c) ==
    /\ clients[c].ws = "OPEN"
    /\ inbox[c] # <<>>
    /\ LET evt == [kind |-> "text", parse |-> "object", data |-> Head(inbox[c])]
           r == handleMessage(clients[c].sess, evt)
       IN  /\ clients' = [clients EXCEPT ![c].sess = r.sess]
           /\ events' = r.events
           /\ threw' = r.threw
           /\ op' = [kind |-> "recv", who |-> c, evt |-> evt]
    /\ inbox' = [inbox EXCEPT ![c] = Tail(@)]
    /\ queued' = Nothing
    /\ sent' = <<>>
    /\ UNCHANGED <<variant, soloVars, subVars, codecVars, callerVars, server, uplink,
                   handled>>

\* createRoom of client c: the scenario has one room, so the call is made
\* while the backend has no room and no createRoom is on its way, and with
\* no other room command of c outstanding
createRoomAt(c, tags, maxClients, isPrivate) ==
    /\ server.members = {}
    /\ \A d \in Clients : \A i \in 1..Len(uplink[d]) : uplink[d][i].obj.type # "createRoom"
    /\ RoomCommandsOf(c) = {}
    /\ request(c, [kind |-> "createRoom", who |-> c],
               [type |-> "createRoom", tags |-> createRoomTags(tags, isPrivate),
                maxClients |-> maxClients],
               clients[c].sess)

\* joinRoom of a client that is not in the room and has no other room
\* command outstanding
joinRoomAt(c, rid) ==
    /\ c \notin server.members
    /\ RoomCommandsOf(c) = {}
    /\ request(c, [kind |-> "joinRoom", who |-> c], [type |-> "joinRoom", roomId |-> rid],
               clients[c].sess)

leaveRoomAt(c) ==
    request(c, [kind |-> "leaveRoom", who |-> c], [type |-> "leaveRoom"],
            IF variant = "netClient" THEN leaveRoom_netClient(clients[c].sess)
            ELSE leaveRoom_client(clients[c].sess))

\* addTag(tag): { type: "addTag", tag }
addTag(c, tag) ==
    request(c, [kind |-> "addTag", who |-> c, tag |-> tag],
            [type |-> "addTag", tag |-> tag], clients[c].sess)

\* removeTag(tag): { type: "removeTag", tag }
removeTag(c, tag) ==
    request(c, [kind |-> "removeTag", who |-> c, tag |-> tag],
            [type |-> "removeTag", tag |-> tag], clients[c].sess)

sendRelayAt(c, payload) ==
    request(c, [kind |-> "sendRelay", who |-> c, payload |-> payload],
            relayRequest(payload), clients[c].sess)

tellPlayerAt(c, pid, payload) ==
    request(c, [kind |-> "tellPlayer", who |-> c, playerId |-> pid, payload |-> payload],
            tellPlayerRequest(pid, payload), clients[c].sess)

NextRoom ==
    \/ \E c \in Clients : onmessageAt(c)
    \/ \E c \in Clients : \E pick \in Clients : backendReceive(c, pick)
    \/ \E mc \in MaxClientsVals : createRoomAt(Creator, <<>>, mc, FALSE)
    \/ \E c \in Clients : joinRoomAt(c, TheRoom)
    \/ \E c \in Clients : leaveRoomAt(c)
    \/ \E c \in Clients : \E tag \in RoomTags : addTag(c, tag)
    \/ \E c \in Clients : \E tag \in RoomTags : removeTag(c, tag)
    \/ \E c \in Clients : \E payload \in RoomPayloads : sendRelayAt(c, payload)
    \/ \E c \in Clients : \E d \in Clients \ {c} : \E payload \in RoomPayloads :
          tellPlayerAt(c, idOf[d], payload)

\* Three clients and the backend's room.
SpecRoom == Init /\ [][NextRoom]_vars

\* --------------------------------------------------------- codec scenario
\* One object with an open transport: sendBinary is given bit strings, arrays
\* and buffers; the frame it sends comes back to the object as the backend
\* forwards it to a peer of the same class and mode, before anything else
\* happens; and binary frames of any content arrive from the backend.

\* Longest '0'/'1' string given to sendBinary.
MaxBits == 17
\* Longest array or buffer given to sendBinary.
MaxBytes == 3
\* Longest inbound binary frame.
MaxFrame == 5

\* Every sequence over S of length n at most.
SeqsUpTo(S, n) == UNION {[1..k -> S] : k \in 0..n}

\* '0'/'1' strings of n characters, as sequences of the digits: all zeros,
\* all ones, alternating, a one in front, a one at the end.
BitPatterns(n) ==
    { [i \in 1..n |-> 0], [i \in 1..n |-> 1], [i \in 1..n |-> i % 2],
      [i \in 1..n |-> IF i = 1 THEN 1 ELSE 0], [i \in 1..n |-> IF i = n THEN 1 ELSE 0] }

\* '0'/'1' strings of every length up to MaxBits.
BitStrings == UNION {BitPatterns(n) : n \in 0..MaxBits}

\* Arrays of integers in [0,255].
ByteArrays == SeqsUpTo({7, 255}, MaxBytes) \cup {<<0>>, <<1, 2, 3, 4, 5>>}

CodecInputs ==
    [kind : {"string"}, val : BitStrings]
    \cup [kind : {"array", "buffer"}, val : ByteArrays]

\* Inbound binary frames; the first byte stays below 128 so that the 32-bit
\* sender value fits the model checker's integers.
CodecFrames ==
    [kind : {"binary"},
     bytes : SeqsUpTo({1, 127}, MaxFrame) \cup {<<0, 0, 1, 0>>, <<0, 0, 0, 7, 0, 255>>}]

\* The sender identity the backend puts in front of a forwarded frame in the
\* extended variant.
SenderPrefix == <<0, 0, 0, 7>>

\* The frame as the backend forwards it: unchanged in the minimal variant,
\* behind the sender prefix in the extended one.
forward(bytes) == IF variant = "netClient" THEN bytes ELSE SenderPrefix \o bytes

\* The object as constructed, in either binary mode (the mode is a setting
\* of the class file; src/client.js has none).
InitCodec ==
    /\ Fresh
    /\ binaryMode \in BinaryModes
    /\ variant = "client" => binaryMode = "bitstring"
    /\ callerTags = <<>>

\* sendBinary(data), the frame going on its way
sendBinaryOut(data) ==
    /\ wire = <<>>
    /\ sendBinary(data)
    /\ wire' = [i \in 1..Len(sent') |-> [bytes |-> sent'[i].bytes, data |-> data]]
    /\ UNCHANGED binaryMode

\* The message event for the frame that was sent, as forwarded.
ReceiveBack(i) ==
    /\ wire # <<>>
    /\ sockets[i] = "OPEN"
    /\ LET evt == [kind |-> "binary", bytes |-> forward(wire[1].bytes)]
       IN  /\ Apply(handleMessage(Sess, evt))
           /\ op' = [kind |-> "recv", sock |-> i, evt |-> evt, data |-> wire[1].data]
    /\ wire' = <<>>
    /\ sent' = <<>>
    /\ UNCHANGED <<variant, sockets, ws, binaryMode>>

NextCodec ==
    \/ wire = <<>> /\ connect /\ UNCHANGED <<subVars, roomVars, codecVars, callerVars>>
    \/ \E i \in DOMAIN sockets :
          wire = <<>> /\ SocketOpen(i) /\ UNCHANGED <<subVars, roomVars, codecVars, callerVars>>
    \/ \E i \in DOMAIN sockets :
          wire = <<>> /\ PeerClosing(i) /\ UNCHANGED <<subVars, roomVars, codecVars, callerVars>>
    \/ \E i \in DOMAIN sockets : \E evt \in CodecFrames :
          wire = <<>> /\ Receive(i, evt) /\ UNCHANGED <<subVars, roomVars, codecVars, callerVars>>
    \/ \E data \in CodecInputs : sendBinaryOut(data) /\ UNCHANGED <<subVars, roomVars, callerVars>>
    \/ \E i \in DOMAIN sockets : ReceiveBack(i) /\ UNCHANGED <<subVars, roomVars, callerVars>>

\* The binary codec of one object.
SpecCodec == InitCodec /\ [][NextCodec]_vars

\* -------------------------------------------------------- caller scenario
\* One client object and the application that drives it: the application
\* keeps one array of tags, which it hands to createRoom and listRooms each
\* time, and issues the room commands while answers to earlier ones are
\* still arriving.
MaxTags == 5

\* The application's array after createRoom(tags, maxClients, isPrivate):
\* netClient.js pushes onto the array it was given, client.js builds a new
\* array with [...tags, ...] and leaves the caller's alone.
createRoomArray(tags, isPrivate) ==
    IF variant = "netClient" THEN createRoomTags(tags, isPrivate) ELSE tags

\* The application's array after listRooms(tags).
listRoomsArray(tags) ==
    IF variant = "netClient" THEN listRoomsTags(tags) ELSE tags

\* Frames the backend sends while the application runs.
CallerFrames == SubscriberFrames

InitCaller == Fresh /\ binaryMode = "bitstring" /\ callerTags \in TagLists

\* createRoom(callerTags, maxClients, isPrivate)
createRoomBy(maxClients, isPrivate) ==
    /\ Len(callerTags) + 2 <= MaxTags
    /\ createRoom(callerTags, maxClients, isPrivate)
    /\ callerTags' = createRoomArray(callerTags, isPrivate)
    /\ hasLeft' = FALSE

\* listRooms(callerTags)
listRoomsBy ==
    /\ Len(callerTags) + 1 <= MaxTags
    /\ listRooms(callerTags)
    /\ callerTags' = listRoomsArray(callerTags)
    /\ UNCHANGED hasLeft

\* joinRoom(roomId)
joinRoomBy(rid) ==
    /\ joinRoom(rid)
    /\ hasLeft' = FALSE
    /\ UNCHANGED callerTags

\* leaveRoom()
leaveRoomBy ==
    /\ leaveRoom
    /\ hasLeft' = TRUE
    /\ UNCHANGED callerTags

NextCaller ==
    \/ connect /\ UNCHANGED <<subVars, roomVars, codecVars, callerVars>>
    \/ \E i \in DOMAIN sockets :
          SocketOpen(i) /\ UNCHANGED <<subVars, roomVars, codecVars, callerVars>>
    \/ \E i \in DOMAIN sockets :
          PeerClosing(i) /\ UNCHANGED <<subVars, roomVars, codecVars, callerVars>>
    \/ \E i \in DOMAIN sockets : \E evt \in CallerFrames :
          Receive(i, evt) /\ UNCHANGED <<subVars, roomVars, codecVars, callerVars>>
    \/ \E mc \in MaxClientsVals : \E priv \in BOOLEAN :
          createRoomBy(mc, priv) /\ UNCHANGED <<subVars, roomVars, codecVars>>
    \/ listRoomsBy /\ UNCHANGED <<subVars, roomVars, codecVars>>
    \/ \E rid \in RoomIds : joinRoomBy(rid) /\ UNCHANGED <<subVars, roomVars, codecVars>>
    \/ leaveRoomBy /\ UNCHANGED <<subVars, roomVars, codecVars>>

\* The session driven by an application that reuses its tags array.
SpecCaller == InitCaller /\ [][NextCaller]_vars

\* ================================================================ claims
\* The task recorded in o processed an inbound JSON object of kind type.
RecvMsgOf(o, type) ==
    /\ o.kind = "recv"
    /\ o.evt.kind = "text"
    /\ o.evt.parse = "object"
    /\ o.evt.data.type = type

RecvMsg(type) == RecvMsgOf(op, type)

\* The outbound commands of the room and message API.
CommandKinds ==
    {"createRoom", "joinRoom", "leaveRoom", "listRooms",
     "sendRelay", "tellOwner", "tellPlayer", "sendBinary"}

\* isHost is exactly "the known owner is me".
HostFlag == isHost = (ownerId # NULL /\ ownerId = playerId)

\* C1 (as claimed): host flag invariant.  Every inbound message that follows
\* the server contract (sent to an assigned client, roomCreated carrying the
\* client's own id, roomJoined naming another player as owner, no second
\* assignId) and is processed in a state where isHost == (ownerId ==
\* playerId) leaves isHost == (ownerId == playerId).
C1_HostFlagInvariant ==
    [][ ( /\ HostFlag
          /\ playerId # NULL
          /\ op'.kind = "recv"
          /\ op'.evt.kind = "text"
          /\ op'.evt.parse = "object"
          /\ op'.evt.data.type # "assignId"
          /\ (op'.evt.data.type = "roomCreated" => op'.evt.data.playerId = playerId)
          /\ (op'.evt.data.type = "roomJoined" =>
                 /\ op'.evt.data.playerId = playerId
                 /\ op'.evt.data.ownerId # playerId) )
        => HostFlag' ]_vars

\* C2 (as claimed): after the close event of any socket the four fields are
\* at their defaults, and `disconnected` was raised once, its subscribers
\* seeing the fields already cleared.
C2_CloseClearsSession ==
    op.kind = "close" =>
        /\ Sess = Cleared
        /\ Len(events) = 1
        /\ events[1].event = "disconnected"
        /\ events[1].seen = Cleared

\* C3 (as claimed): when connect() directly follows disconnect(), playerId
\* and roomId are null and isHost is false in the state the reconnect
\* produces (the first state of the interval that lasts until the new
\* transport's assignId).
C3_ReconnectStartsCleared ==
    [][ (op.kind = "disconnect" /\ op'.kind = "connect")
        => (playerId' = NULL /\ roomId' = NULL /\ isHost' = FALSE) ]_vars

\* C4 (as claimed): in the state leaveRoom() produces, roomId and ownerId
\* are null and isHost is false.
C4_LeaveRoomClears ==
    op.kind = "leaveRoom" => (roomId = NULL /\ ownerId = NULL /\ isHost = FALSE)

\* C5 (as claimed): a command issued while the transport is not open, or
\* while it is open but no identity is assigned, submits nothing and raises
\* nothing.
C5_DroppedUnlessAssigned ==
    [][ (op'.kind \in CommandKinds /\ (~TransportOpen \/ playerId = NULL))
        => (sent' = <<>> /\ events' = <<>>) ]_vars

\* C5 (amended): a command issued while the transport is not open (this.ws
\* is null or its readyState is not OPEN) submits nothing to the transport
\* and raises no event.
C5_DroppedWhileNotOpen ==
    [][ (op'.kind \in CommandKinds /\ ~TransportOpen)
        => (sent' = <<>> /\ events' = <<>>) ]_vars

\* C5 witness: createRoom was called on a session that has an identity but
\* whose socket is no longer open, and nothing was submitted.
C5_Witness ==
    /\ op.kind = "createRoom"
    /\ playerId # NULL
    /\ ws # NoSocket
    /\ sockets[ws] = "CLOSED"
    /\ sent = <<>>
    /\ events = <<>>

\* C6 (as claimed): after a roomCreated message carrying the client's own id
\* the session is in-room host: roomId is the message's, ownerId is the local
\* playerId, isHost is true, roomCreated raised with (roomId, playerId).
C6_RoomCreatedMakesHost ==
    (RecvMsg("roomCreated") /\ op.evt.data.playerId = playerId) =>
        /\ roomId = op.evt.data.roomId
        /\ ownerId = playerId
        /\ isHost = TRUE
        /\ events = emit("roomCreated", <<op.evt.data.roomId, op.evt.data.playerId>>, Sess)

\* C7: after a roomJoined message the session is in-room member: roomId and
\* ownerId are the message's, isHost is false, and roomJoined was raised once
\* with (roomId, playerId, ownerId, maxClients) as carried by the message,
\* the subscribers seeing the fields already updated.
C7_RoomJoinedMakesMember ==
    RecvMsg("roomJoined") =>
        /\ roomId = op.evt.data.roomId
        /\ ownerId = op.evt.data.ownerId
        /\ isHost = FALSE
        /\ events = emit("roomJoined",
                         <<op.evt.data.roomId, op.evt.data.playerId,
                           op.evt.data.ownerId, op.evt.data.maxClients>>, Sess)

\* C7 witness: an assigned client processed its roomJoined, owner someone else.
C7_Witness ==
    /\ RecvMsg("roomJoined")
    /\ playerId # NULL
    /\ op.evt.data.playerId = playerId
    /\ op.evt.data.ownerId # playerId
    /\ roomId = op.evt.data.roomId

\* C8: a makeHost message processed while in a room as member keeps roomId
\* and playerId, sets ownerId to the local playerId and isHost to true, and
\* raises makeHost once with the message's oldHostId.
C8_MakeHostPromotes ==
    [][ (RecvMsgOf(op', "makeHost") /\ roomId # NULL /\ ~isHost)
        => /\ roomId' = roomId
           /\ playerId' = playerId
           /\ ownerId' = playerId
           /\ isHost' = TRUE
           /\ events' = emit("makeHost", <<op'.evt.data.oldHostId>>, Sess') ]_vars

\* C8 witness: an assigned client in a room has just been promoted by a
\* makeHost naming another player as the old host.
C8_Witness ==
    /\ RecvMsg("makeHost")
    /\ roomId # NULL
    /\ playerId # NULL
    /\ op.evt.data.oldHostId # playerId
    /\ ownerId = playerId
    /\ isHost

\* C9: a reassignedHost message sets ownerId to newHostId and isHost to
\* (playerId == newHostId), keeps roomId and playerId, and raises
\* reassignedHost once with (newHostId, oldHostId).
C9_ReassignedHost ==
    [][ RecvMsgOf(op', "reassignedHost")
        => /\ ownerId' = op'.evt.data.newHostId
           /\ isHost' = (playerId = op'.evt.data.newHostId)
           /\ roomId' = roomId
           /\ playerId' = playerId
           /\ events' = emit("reassignedHost",
                             <<op'.evt.data.newHostId, op'.evt.data.oldHostId>>, Sess') ]_vars

\* C9 witness: a client in a room has seen ownership pass to another player
\* and is not host.
C9_Witness ==
    /\ RecvMsg("reassignedHost")
    /\ roomId # NULL
    /\ playerId # NULL
    /\ op.evt.data.newHostId # playerId
    /\ ownerId = op.evt.data.newHostId
    /\ ~isHost

\* C10 (as claimed): an error message leaves the four fields and the
\* connection (this.ws and every socket's readyState) unchanged and raises
\* `error` once with the message string of the frame.
C10_ErrorRaised ==
    [][ RecvMsgOf(op', "error")
        => /\ UNCHANGED <<playerId, roomId, ownerId, isHost, sockets, ws>>
           /\ events' = emit("error", <<op'.evt.data.message>>, Sess') ]_vars

\* Kinds the server sends to a client, as section 6 of the specification
\* lists them.
ServerToClientKinds ==
    {"assignId", "roomCreated", "roomJoined", "makeHost", "reassignedHost",
     "playerLeft", "relay", "tellOwner", "tellPlayer", "roomList",
     "roomUpdated", "roomTagAdded", "roomTagRemoved", "error"}

\* A text frame that cannot be parsed, or whose JSON value carries no type
\* of the given kinds.
UnrecognisedAmong(kinds, evt) ==
    /\ evt.kind = "text"
    /\ \/ evt.parse \in {"error", "null", "scalar"}
       \/ evt.parse = "object" /\ evt.data.type \notin kinds

Unrecognised(evt) == UnrecognisedAmong(ServerToClientKinds, evt)

\* C11 (as claimed): an inbound text frame that cannot be parsed, or that
\* parses but carries a type outside the server-to-client kinds, raises no
\* event and leaves playerId, roomId, ownerId and isHost unchanged.
C11_UnknownFramesDropped ==
    [][ (op'.kind = "recv" /\ Unrecognised(op'.evt))
        => (events' = <<>> /\ UNCHANGED <<playerId, roomId, ownerId, isHost>>) ]_vars

\* C11 (amended): an inbound text frame that cannot be parsed, or that
\* parses but carries a type that is neither one of the server-to-client
\* kinds nor leftRoom, raises no event and leaves playerId, roomId, ownerId
\* and isHost unchanged.
C11_UnknownFramesDroppedButLeftRoom ==
    [][ ( /\ op'.kind = "recv"
          /\ UnrecognisedAmong(ServerToClientKinds \cup {"leftRoom"}, op'.evt) )
        => (events' = <<>> /\ UNCHANGED <<playerId, roomId, ownerId, isHost>>) ]_vars

\* C11 witness: a host in a room has just been handed a frame of a kind
\* no copy knows, and nothing has happened.
C11_Witness ==
    /\ op.kind = "recv"
    /\ op.evt.kind = "text"
    /\ op.evt.parse = "object"
    /\ op.evt.data.type = "bogus"
    /\ roomId # NULL
    /\ isHost
    /\ events = <<>>

\* C12 (as claimed): no inbound frame ends in an uncaught failure of the
\* message handler.
C12_NoFrameFatal == op.kind = "recv" => ~threw

\* C13 (as claimed): an inbound roomUpdated, roomTagAdded or roomTagRemoved
\* frame raises exactly the event of the same name at the receiving client.
C13_RoomUpdateEvents ==
    \A k \in {"roomUpdated", "roomTagAdded", "roomTagRemoved"} :
        RecvMsg(k) => (Len(events) = 1 /\ events[1].event = k)

\* The case labels of the switch in each copy of _handleMessage.
CaseLabels ==
    IF variant = "netClient"
    THEN {"assignId", "roomCreated", "roomJoined", "makeHost", "reassignedHost",
          "playerLeft", "relay", "tellOwner", "tellPlayer", "roomList"}
    ELSE {"assignId", "roomCreated", "roomJoined", "leftRoom", "makeHost",
          "reassignedHost", "playerLeft", "relay", "tellOwner", "tellPlayer",
          "roomList", "error"}

\* A frame the handler recognises: a JSON object whose type has a case, or a
\* binary frame (in the extended variant, one that holds the 4-byte prefix).
Recognised(evt) ==
    \/ evt.kind = "binary" /\ (variant = "client" => Len(evt.bytes) >= 4)
    \/ evt.kind = "text" /\ evt.parse = "object" /\ evt.data.type \in CaseLabels

\* The event a recognised frame is raised as.
EventNameOf(evt) ==
    IF evt.kind = "binary" THEN "binary"
    ELSE IF evt.data.type = "assignId" THEN "assignedId" ELSE evt.data.type

\* C16: every onmessage task handles exactly its own frame: a recognised
\* frame raises exactly one event, the one of that frame (its name, and for
\* relay / tellOwner / tellPlayer its from and payload); any other frame
\* raises none.  Tasks run one after the other in arrival order, so the
\* events of a burst are, in order and number, its recognised frames.
C16_OneEventPerFrame ==
    op.kind = "recv" =>
        IF Recognised(op.evt)
        THEN /\ Len(events) = 1
             /\ events[1].event = EventNameOf(op.evt)
             /\ (op.evt.kind = "text" /\ op.evt.data.type \in {"relay", "tellOwner", "tellPlayer"})
                    => events[1].args = <<op.evt.data.from, op.evt.data.payload>>
        ELSE events = <<>>

\* C16 witness: a relay frame delivered to a member in a room has raised its
\* one relay event.
C16_Witness ==
    /\ RecvMsg("relay")
    /\ roomId # NULL
    /\ Len(events) = 1
    /\ events[1].event = "relay"

\* C17: a createRoom request on the wire carries the caller's tags, then
\* game:<gameName>, then "private" exactly when isPrivate; a listRooms
\* request carries the caller's tags, then game:<gameName>.
C17_RequestTags ==
    /\ (op.kind = "createRoom" /\ sent # <<>>) =>
          LET t == sent[1].data.tags
              n == Len(op.tags)
          IN  /\ Len(sent) = 1
              /\ sent[1].data.type = "createRoom"
              /\ Len(t) = n + 1 + (IF op.isPrivate THEN 1 ELSE 0)
              /\ SubSeq(t, 1, n) = op.tags
              /\ t[n + 1] = "game:" \o gameName
              /\ op.isPrivate => t[n + 2] = "private"
    /\ (op.kind = "listRooms" /\ sent # <<>>) =>
          LET t == sent[1].data.tags
              n == Len(op.tags)
          IN  /\ Len(sent) = 1
              /\ sent[1].data.type = "listRooms"
              /\ Len(t) = n + 1
              /\ SubSeq(t, 1, n) = op.tags
              /\ t[n + 1] = "game:" \o gameName

\* C17 witness: a private room with one caller tag was requested on an open
\* transport.
C17_Witness ==
    /\ op.kind = "createRoom"
    /\ op.isPrivate
    /\ op.tags = <<"region:NA">>
    /\ Len(sent) = 1

RECURSIVE registeredFor(_, _)
\* The callbacks the on() calls of log registered for event, in call order.
registeredFor(log, event) ==
    IF log = <<>> THEN <<>>
    ELSE (IF Head(log)[1] = event THEN <<Head(log)[2]>> ELSE <<>>)
         \o registeredFor(Tail(log), event)

\* C14: the subscribers of an event are invoked in the emitting task, once
\* per registration and in registration order: the callbacks invoked for an
\* emission are exactly the callbacks of the on() calls made for that event,
\* in the order of those calls (a callback registered k times runs k times),
\* each with the arguments of the emission.
C14_RegistrationOrder ==
    Len(events) = 1 =>
        LET regs == registeredFor(regLog, events[1].event)
        IN  /\ Len(Calls) = Len(regs)
            /\ \A i \in 1..Len(regs) :
                  /\ Calls[i].cb = regs[i]
                  /\ Calls[i].event = events[1].event
                  /\ Calls[i].args = events[1].args

\* C14 witness: g was registered before f for assignedId, and an emission
\* of assignedId has invoked g and then f.
C14_Witness ==
    /\ RecvMsg("assignId")
    /\ Len(Calls) = 2
    /\ Calls[1].cb = "g"
    /\ Calls[2].cb = "f"

\* The fields a state-changing message of kind k must show once applied.
Updated(k, data, s) ==
    CASE k = "assignId" -> s.playerId = data.playerId
      [] k = "roomCreated" -> s.roomId = data.roomId /\ s.ownerId = data.playerId
      [] k = "roomJoined" ->
            s.roomId = data.roomId /\ s.ownerId = data.ownerId /\ ~s.isHost
      [] k = "makeHost" -> s.isHost /\ s.ownerId = s.playerId
      [] k = "reassignedHost" -> s.ownerId = data.newHostId

\* C15: within one inbound dispatch the mutation precedes the notification:
\* for assignId, roomCreated, roomJoined, makeHost and reassignedHost the
\* one emission, and every subscriber invoked for it, sees the session
\* fields as the task leaves them, with the message applied; and every
\* registered subscriber of the event has been invoked in that same task.
C15_MutationBeforeNotification ==
    \A k \in {"assignId", "roomCreated", "roomJoined", "makeHost", "reassignedHost"} :
        RecvMsg(k) =>
            /\ Len(events) = 1
            /\ events[1].seen = Sess
            /\ Updated(k, op.evt.data, events[1].seen)
            /\ Len(Calls) = Len(registeredFor(regLog, events[1].event))
            /\ \A i \in 1..Len(Calls) :
                  Calls[i].seen = Sess /\ Updated(k, op.evt.data, Calls[i].seen)

\* C15 witness: two subscribers of assignedId were invoked for an assignId
\* message and found playerId already set.
C15_Witness ==
    /\ RecvMsg("assignId")
    /\ Len(Calls) = 2
    /\ Calls[1].seen.playerId = op.evt.data.playerId
    /\ Calls[2].seen.playerId = op.evt.data.playerId

\* The task that produced the current state delivered a message of kind
\* type to one of the room scenario's clients.
Delivered(type) == RecvMsg(type) /\ "who" \in DOMAIN op

\* The task that produced the current state was the backend handling the
\* frame that client op.who sent with a call of the given kind.
Served(kind) == op.kind = "served" /\ op.call.kind = kind

\* C18: the room is closed from the moment the backend handles the owner's
\* addTag("closed") to the moment it handles the owner's
\* removeTag("closed"); a joinRoom the backend handles while the room is
\* closed brings the joining client an error frame and nothing else, leaves
\* it outside the room and sends nothing to the members; and the client
\* that is handed that error frame raises `error` with its message.
C18_ClosedRoomRejectsJoin ==
    /\ (Served("addTag") /\ op.call.tag = "closed" /\ op.who = server.owner)
          => "closed" \in server.tags
    /\ (Served("removeTag") /\ op.call.tag = "closed" /\ op.who = server.owner)
          => "closed" \notin server.tags
    /\ (Served("joinRoom") /\ "closed" \in server.tags) =>
          /\ op.who \notin server.members
          /\ \A d \in Clients :
                IF d = op.who
                THEN Len(queued[d]) = 1 /\ queued[d][1].type = "error"
                ELSE queued[d] = <<>>
    /\ (Delivered("error") /\ op.evt.data.message = "Room is closed") =>
          /\ Len(events) = 1
          /\ events[1].event = "error"
          /\ events[1].args = <<op.evt.data.message>>

\* C19: when the backend handles the sendRelay of a client A that is a
\* member, it puts one relay frame, carrying A's identity and the payload
\* of the call, on the way to every other member and none on the way to A
\* or to a client outside the room; no relay frame travels to the client it
\* names as sender; and the client that is handed a relay frame raises
\* `relay` with that sender and that payload, the sender being another
\* client, which knows no other identity of its own.
C19_RelayRoundTrip ==
    /\ (Served("sendRelay") /\ op.who \in server.members) =>
          \A d \in Clients :
             queued[d] = IF d \in server.members \ {op.who}
                         THEN <<[type |-> "relay", from |-> idOf[op.who],
                                 payload |-> op.call.payload]>>
                         ELSE <<>>
    /\ \A c \in Clients : \A i \in 1..Len(inbox[c]) :
          inbox[c][i].type = "relay" => inbox[c][i].from # idOf[c]
    /\ Delivered("relay") =>
          /\ Len(events) = 1
          /\ events[1].event = "relay"
          /\ events[1].args = <<op.evt.data.from, op.evt.data.payload>>
          /\ \E a \in Clients \ {op.who} :
                /\ idOf[a] = op.evt.data.from
                /\ clients[a].sess.playerId \in {NULL, op.evt.data.from}

\* C19 witness: with A, B and C in the room, C has been handed A's relay of
\* "bye" and has raised relay("p1", "bye").
C19_Witness ==
    /\ Delivered("relay")
    /\ op.who = "C"
    /\ server.members = Clients
    /\ Len(events) = 1
    /\ events[1].args = <<"p1", "bye">>

\* C20: when the backend handles the tellPlayer(B.id, payload) call of a
\* member A, B being another member, it puts one tellPlayer frame, carrying
\* A's identity and the payload of the call, on the way to B and nothing on
\* the way to anyone else, A included; and the client that is handed a
\* tellPlayer frame raises `tellPlayer` with that sender and that payload.
C20_DirectedDelivery ==
    /\ (/\ Served("tellPlayer")
        /\ op.who \in server.members
        /\ \E b \in server.members \ {op.who} : idOf[b] = op.call.playerId) =>
          \A d \in Clients :
             queued[d] = IF idOf[d] = op.call.playerId
                         THEN <<[type |-> "tellPlayer", from |-> idOf[op.who],
                                 payload |-> op.call.payload]>>
                         ELSE <<>>
    /\ Delivered("tellPlayer") =>
          /\ Len(events) = 1
          /\ events[1].event = "tellPlayer"
          /\ events[1].args = <<op.evt.data.from, op.evt.data.payload>>
          /\ op.evt.data.from # idOf[op.who]

\* C20 witness: with A, B and C in the room, B has been handed A's
\* tellPlayer and has raised tellPlayer("p1", "hello").
C20_Witness ==
    /\ Delivered("tellPlayer")
    /\ op.who = "B"
    /\ server.members = Clients
    /\ Len(events) = 1
    /\ events[1].args = <<"p1", "hello">>

\* The task that produced the current state handed the object a binary frame.
RecvBinary == op.kind = "recv" /\ op.evt.kind = "binary"

\* The task that produced the current state handed the object the frame its
\* own sendBinary(data) had produced, data being of the given kind.
RecvBack(kind) == RecvBinary /\ "data" \in DOMAIN op /\ op.data.kind = kind

\* The task that produced the current state raised `binary` once, with the
\* one argument a.
RaisedBinary(a) ==
    /\ Len(events) = 1
    /\ events[1].event = "binary"
    /\ events[1].args = <<a>>

\* C21: in the minimal variant sendBinary of an array of integers in [0,255]
\* sends one frame holding exactly those integers, and a peer in byte-array
\* mode that receives that frame raises `binary` with the identical
\* sequence, same length and same order.
C21_ByteArrayRoundTrip ==
    variant = "netClient" =>
        /\ (op.kind = "sendBinary" /\ op.data.kind = "array" /\ TransportOpen) =>
              /\ Len(sent) = 1
              /\ sent[1].kind = "binary"
              /\ sent[1].bytes = op.data.val
        /\ (RecvBack("array") /\ binaryMode = "arraybytes") =>
              /\ RaisedBinary(op.data.val)
              /\ Len(events[1].args[1]) = Len(op.data.val)

\* C21 witness: in byte-array mode the frame of sendBinary([1,2,3,4,5]) has
\* come back and `binary` was raised with [1,2,3,4,5].
C21_Witness ==
    /\ variant = "netClient"
    /\ binaryMode = "arraybytes"
    /\ RecvBack("array")
    /\ op.data.val = <<1, 2, 3, 4, 5>>
    /\ RaisedBinary(<<1, 2, 3, 4, 5>>)

\* The characters of group g (1-based) of the '0'/'1' string str.
GroupOf(str, g) ==
    SubSeq(str, 8 * (g - 1) + 1, IF 8 * g < Len(str) THEN 8 * g ELSE Len(str))

\* The unsigned value of a group of at most 8 characters, zeros put in front
\* of a short one.
GroupValue(grp) ==
    LET padded == [j \in 1..(8 - Len(grp)) |-> 0] \o grp
    IN  padded[1] * 128 + padded[2] * 64 + padded[3] * 32 + padded[4] * 16
        + padded[5] * 8 + padded[6] * 4 + padded[7] * 2 + padded[8]

\* C22: in the minimal variant sendBinary of a '0'/'1' string of n
\* characters sends one frame of ceil(n/8) bytes, each the unsigned value of
\* its 8-character group, a short final group counting as padded with zeros
\* in front; in bit-string mode every received byte is rendered as exactly 8
\* characters, highest bit first, in receive order; and a string whose
\* length is a multiple of 8 comes back as the same string.
C22_BitStringCodec ==
    variant = "netClient" =>
        /\ (op.kind = "sendBinary" /\ op.data.kind = "string" /\ TransportOpen) =>
              /\ Len(sent) = 1
              /\ sent[1].kind = "binary"
              /\ Len(sent[1].bytes) = (Len(op.data.val) + 7) \div 8
              /\ \A g \in 1..Len(sent[1].bytes) :
                    sent[1].bytes[g] = GroupValue(GroupOf(op.data.val, g))
        /\ (RecvBinary /\ binaryMode = "bitstring") =>
              /\ Len(events) = 1
              /\ events[1].event = "binary"
              /\ Len(events[1].args) = 1
              /\ Len(events[1].args[1]) = 8 * Len(op.evt.bytes)
              /\ \A k \in 1..Len(op.evt.bytes) : \A j \in 1..8 :
                    events[1].args[1][8 * (k - 1) + j]
                        = (op.evt.bytes[k] \div (2 ^ (8 - j))) % 2
        /\ (RecvBack("string") /\ binaryMode = "bitstring" /\ Len(op.data.val) % 8 = 0) =>
              RaisedBinary(op.data.val)

\* C22 witness: in bit-string mode a string of 16 characters, alternating
\* ones and zeros, has come back as the same string.
C22_Witness ==
    /\ variant = "netClient"
    /\ binaryMode = "bitstring"
    /\ RecvBack("string")
    /\ op.data.val = [i \in 1..16 |-> i % 2]
    /\ RaisedBinary([i \in 1..16 |-> i % 2])

\* C23: the binary mode is one of the two values, is set when the object is
\* constructed and is changed by no step; and in the minimal variant every
\* inbound binary frame raises exactly one `binary` event, whose one
\* argument is the bit string of the frame (8 characters per byte) in
\* bit-string mode and the frame's integers in byte-array mode.
C23_OneModeOneEvent ==
    [][ /\ binaryMode' = binaryMode
        /\ binaryMode' \in BinaryModes
        /\ (variant' = "netClient" /\ op'.kind = "recv" /\ op'.evt.kind = "binary") =>
              /\ Len(events') = 1
              /\ events'[1].event = "binary"
              /\ Len(events'[1].args) = 1
              /\ binaryMode' = "bitstring" =>
                    /\ Len(events'[1].args[1]) = 8 * Len(op'.evt.bytes)
                    /\ \A j \in 1..Len(events'[1].args[1]) :
                          events'[1].args[1][j] \in {0, 1}
              /\ binaryMode' = "arraybytes" => events'[1].args[1] = op'.evt.bytes
      ]_vars

\* C23 witness: an object in byte-array mode was handed a frame of two bytes
\* and raised `binary` with the two integers.
C23_Witness ==
    /\ variant = "netClient"
    /\ binaryMode = "arraybytes"
    /\ RecvBinary
    /\ op.evt.bytes = <<1, 127>>
    /\ RaisedBinary(<<1, 127>>)

\* C29: in the extended variant an inbound binary frame of 4+k bytes raises
\* `binary` once, with the sender identity equal to the big-endian unsigned
\* value of the first 4 bytes and the payload equal to the remaining k
\* bytes in order, k = 0 included.
C29_SenderPrefix ==
    (variant = "client" /\ RecvBinary /\ Len(op.evt.bytes) >= 4) =>
        LET b == op.evt.bytes
        IN  /\ Len(events) = 1
            /\ events[1].event = "binary"
            /\ events[1].args =
                  << b[1] * 16777216 + b[2] * 65536 + b[3] * 256 + b[4],
                     [i \in 1..(Len(b) - 4) |-> b[i + 4]] >>

\* C29 witness: the frame 1,127,1,1,127 raised `binary` with sender
\* 1*2^24 + 127*2^16 + 1*2^8 + 1 and the payload 127.
C29_Witness ==
    /\ variant = "client"
    /\ RecvBinary
    /\ op.evt.bytes = <<1, 127, 1, 1, 127>>
    /\ Len(events) = 1
    /\ events[1].args = <<25100545, <<127>>>>

\* Every transport but the current one is closed and has had its close event.
OthersClosed == \A j \in DOMAIN sockets : j # ws => sockets[j] = "CLOSED"

\* C24 (as claimed): connect() raises nothing and makes one transport the
\* current one; when that transport opens right after a connect() made in
\* the disconnected state (every earlier transport closed), `connected` is
\* raised exactly once and the session is connected(unassigned): it holds
\* no identity.
C24_ConnectedThenUnassigned ==
    [][ /\ op'.kind = "connect" =>
              /\ events' = <<>>
              /\ Len(sockets') = Len(sockets) + 1
              /\ ws' = Len(sockets')
        /\ (op.kind = "connect" /\ OthersClosed /\ op'.kind = "open" /\ op'.sock = ws) =>
              /\ Len(events') = 1
              /\ events'[1].event = "connected"
              /\ playerId' = NULL
      ]_vars

\* C25 (as claimed): leaveRoom() called while roomId is null hands no frame
\* to the transport and leaves roomId and ownerId null and isHost false;
\* a second leaveRoom() right after a first changes no field.
C25_LeaveRoomIdempotent ==
    [][ /\ (op'.kind = "leaveRoom" /\ roomId = NULL) =>
              /\ sent' = <<>>
              /\ roomId' = NULL
              /\ ownerId' = NULL
              /\ isHost' = FALSE
        /\ (op.kind = "leaveRoom" /\ op'.kind = "leaveRoom") => Sess' = Sess
      ]_vars

\* C26 (as claimed): in every reachable state ownerId is null whenever
\* roomId is null.
C26_OwnerOnlyInRoom == roomId = NULL => ownerId = NULL

\* The inbound message types that only notify.
NotifyKinds == {"playerLeft", "relay", "tellOwner", "tellPlayer", "roomList"}

\* The arguments the event of a notify-only message carries.
NotifyArgs(data) ==
    CASE data.type = "playerLeft" -> <<data.playerId>>
      [] data.type = "roomList" -> <<data.rooms>>
      [] OTHER -> <<data.from, data.payload>>

\* C28 (as claimed): an inbound playerLeft, relay, tellOwner, tellPlayer or
\* roomList message, and every inbound binary frame, leaves the four fields
\* as they were and raises exactly one event: the one named after the
\* message, with the message's fields, or `binary`.
C28_NotifyOnlyFrames ==
    [][ /\ (\E k \in NotifyKinds : RecvMsgOf(op', k)) =>
              /\ Sess' = Sess
              /\ Len(events') = 1
              /\ events'[1].event = op'.evt.data.type
              /\ events'[1].args = NotifyArgs(op'.evt.data)
        /\ (op'.kind = "recv" /\ op'.evt.kind = "binary") =>
              /\ Sess' = Sess
              /\ Len(events') = 1
              /\ events'[1].event = "binary"
      ]_vars

\* C30 (as claimed): while the transport a connect() made after a
\* disconnect() is open, an event of an earlier transport that is closing
\* (the one disconnect() closed) changes none of the four fields and raises
\* no event.
C30_ReconnectIsolated ==
    [][ ( /\ TransportOpen
          /\ op'.kind \in {"close", "recv"}
          /\ op'.sock # ws
          /\ sockets[op'.sock] = "CLOSING" )
        => (Sess' = Sess /\ events' = <<>>) ]_vars

\* disconnect() was just called and a transport is closing: the one it was
\* called on.
DisconnectedOpen ==
    op.kind = "disconnect" /\ \E i \in DOMAIN sockets : sockets[i] = "CLOSING"

\* C27 (as claimed): a transport is made by connect() only; and after
\* disconnect() on a live transport the session, the transport being fair,
\* eventually is in the state a close event produces in which playerId,
\* roomId and ownerId are null, isHost is false and `disconnected` was
\* raised exactly once.
C27_DisconnectTerminates ==
    /\ [][Len(sockets') # Len(sockets) => op'.kind = "connect"]_vars
    /\ DisconnectedOpen ~>
          ( /\ op.kind = "close"
            /\ Sess = Cleared
            /\ Len(events) = 1
            /\ events[1].event = "disconnected" )

\* The transports whose handlers can still be run: every WebSocket that
\* connect() made and that has not had its close event.
Attached == {i \in DOMAIN sockets : sockets[i] # "CLOSED"}

\* C31 (as claimed): in every reachable state at most one transport can
\* still deliver an open, message or close event to the session's handlers.
C31_OneTransportAttached == Cardinality(Attached) <= 1

\* How many times x occurs in the sequence s.
Occurrences(s, x) == Cardinality({i \in DOMAIN s : s[i] = x})

\* C34 (as claimed): createRoom and listRooms leave the caller's tags array
\* as it was, and a request they submit holds the game:<gameName> tag
\* exactly once and "private" at most once.
C34_TagsArrayUntouched ==
    [][ op'.kind \in {"createRoom", "listRooms"} =>
          /\ callerTags' = callerTags
          /\ sent' # <<>> =>
                /\ Occurrences(sent'[1].data.tags, "game:" \o gameName) = 1
                /\ Occurrences(sent'[1].data.tags, "private") <= 1
      ]_vars

\* The room and host messages a backend sends in answer to room commands.
RoomAnswers == {"roomCreated", "roomJoined", "makeHost", "reassignedHost"}

\* C32 (as claimed): while leaveRoom() is the last room command the caller
\* issued, a roomCreated, roomJoined, makeHost or reassignedHost message
\* sets none of roomId, ownerId and isHost.
C32_LateAnswersIgnored ==
    [][ (hasLeft /\ \E k \in RoomAnswers : RecvMsgOf(op', k))
        => (roomId' = roomId /\ ownerId' = ownerId /\ isHost' = isHost) ]_vars

\* C32 (amended): nothing tells a late answer from a current one; while
\* leaveRoom() is the last room command issued, each of the four messages
\* is applied to the session as at any other time: roomCreated and
\* roomJoined store the message's room and owner (roomJoined also lowers
\* isHost), makeHost raises isHost and makes the own identity the owner,
\* reassignedHost stores the new host and recomputes isHost.
C32_LateAnswersApplied ==
    [][ hasLeft =>
          /\ RecvMsgOf(op', "roomCreated") =>
                /\ roomId' = op'.evt.data.roomId
                /\ ownerId' = op'.evt.data.playerId
          /\ RecvMsgOf(op', "roomJoined") =>
                /\ roomId' = op'.evt.data.roomId
                /\ ownerId' = op'.evt.data.ownerId
                /\ isHost' = FALSE
          /\ RecvMsgOf(op', "makeHost") =>
                /\ isHost' = TRUE
                /\ ownerId' = playerId
                /\ roomId' = roomId
          /\ RecvMsgOf(op', "reassignedHost") =>
                /\ ownerId' = op'.evt.data.newHostId
                /\ isHost' = (playerId = op'.evt.data.newHostId)
                /\ roomId' = roomId
      ]_vars

\* C32 witness: after leaveRoom(), with no createRoom or joinRoom issued
\* since, a roomCreated message has put the session into room r1.
C32_Witness ==
    /\ hasLeft
    /\ RecvMsg("roomCreated")
    /\ roomId = "r1"
    /\ ownerId = "p1"

\* The outbound commands that are fire-and-forget.
FireAndForget == CommandKinds \ {"leaveRoom"}

\* C33: createRoom, joinRoom, listRooms, sendRelay, tellOwner, tellPlayer
\* and sendBinary change none of playerId, roomId, ownerId and isHost and
\* raise no event; a step that changes one of the four fields is the
\* handling of an inbound message, a leaveRoom() call or a transport close.
C33_FireAndForget ==
    [][ /\ op'.kind \in FireAndForget => (Sess' = Sess /\ events' = <<>>)
        /\ Sess' # Sess => op'.kind \in {"recv", "leaveRoom", "close"}
      ]_vars

\* C33 witness: createRoom was called by an assigned client in a room over
\* an open transport; the request went out and no event was raised.
C33_Witness ==
    /\ op.kind = "createRoom"
    /\ TransportOpen
    /\ Len(sent) = 1
    /\ playerId # NULL
    /\ roomId # NULL
    /\ events = <<>>

\* The sequence s is an initial part of the sequence u.
IsPrefix(s, u) == Len(s) <= Len(u) /\ SubSeq(u, 1, Len(s)) = s

\* The callbacks the task that produced the current state invoked, in order.
Invoked == [i \in 1..Len(Calls) |-> Calls[i].cb]

\* C35: the subscription registry is changed by on() only, and only by
\* growing: every event keeps its callbacks, in their order, with the new
\* one behind them; connect(), disconnect() and the transport's events
\* leave it alone; and an emission made for a later connection (any
\* transport after the first) invokes every callback registered for its
\* event so far, in registration order.
C35_RegistrySurvives ==
    [][ /\ listeners' # listeners => op'.kind = "on"
        /\ \A e \in DOMAIN listeners :
              /\ e \in DOMAIN listeners'
              /\ IsPrefix(listeners[e], listeners'[e])
        /\ (op'.kind \in {"open", "recv", "close"} /\ op'.sock > 1 /\ Len(events') = 1) =>
              LET called == invocations(listeners', events')
              IN  [i \in 1..Len(called) |-> called[i].cb]
                      = registeredFor(regLog', events'[1].event)
      ]_vars

\* C35 witness: f and then g were registered for assignedId, the first
\* transport has closed, and the assignId message of the second connection
\* has invoked f and then g.
C35_Witness ==
    /\ RecvMsg("assignId")
    /\ op.sock = 2
    /\ sockets[1] = "CLOSED"
    /\ regLog = << <<"assignedId", "f">>, <<"assignedId", "g">> >>
    /\ Invoked = <<"f", "g">>

====
